---- MODULE Spec2Model ----
(***************************************************************************)
(* A model of the fiscal-date inference of the Business Factor pipeline:   *)
(* the per-row body of step3_html_parse (inline DEI tag, cover sentence,   *)
(* the FYE probes over the normalized text) and step4_compute_quarter      *)
(* (effective period month, quarter_from).                                 *)
(*                                                                         *)
(* Conventions.  Python's None / NaN / NaT is 0 for a month, NoDate for a  *)
(* date and NoQ for a quarter label.  A normalized text is a sequence of   *)
(* tokens, each standing for a fragment one of the source's regular        *)
(* expressions matches as a whole; offsets are character offsets computed  *)
(* from the fragments' widths, so the source's windows (800, 1500, 2500,   *)
(* 60 characters) keep their values.                                       *)
(***************************************************************************)
EXTENDS Integers, Sequences, FiniteSets, TLC

VARIABLES row, doc, pc, pm, mm, tried, calc, hd, scan, norm, per, sec, dd, run, rq, pl

vars == <<row, doc, pc, pm, mm, tried, calc, hd, scan, norm, per, sec, dd, run, rq, pl>>

(***************************************************************************)
(* Dates                                                                   *)
(***************************************************************************)
NoDate == [y |-> 0, m |-> 0, d |-> 0]

NoQ == "none"

IsLeap(y) == (y % 4 = 0 /\ y % 100 # 0) \/ y % 400 = 0

DaysIn(y, m) ==
    IF m \in {4, 6, 9, 11} THEN 30
    ELSE IF m = 2 THEN (IF IsLeap(y) THEN 29 ELSE 28)
    ELSE 31

ValidDate(dt) == dt.m \in 1..12 /\ dt.d >= 1 /\ dt.d <= DaysIn(dt.y, dt.m)

\* pd.Timestamp - pd.Timedelta(days=1)
PrevDay(dt) ==
    IF dt.d > 1 THEN [dt EXCEPT !.d = dt.d - 1]
    ELSE IF dt.m > 1 THEN [y |-> dt.y, m |-> dt.m - 1, d |-> DaysIn(dt.y, dt.m - 1)]
    ELSE [y |-> dt.y - 1, m |-> 12, d |-> 31]

RECURSIVE MinusDays(_, _)
\* pd.Timestamp - pd.Timedelta(days=n)
MinusDays(dt, n) == IF n = 0 THEN dt ELSE MinusDays(PrevDay(dt), n - 1)

(***************************************************************************)
(* steps.py: the quarter calculator                                        *)
(***************************************************************************)
cutoff == 10

effective_period_month_lt(period_dt, co) ==
    IF period_dt = NoDate THEN 0
    ELSE IF period_dt.d < co THEN MinusDays(period_dt, co).m
    ELSE period_dt.m

effective_period_month(period_dt, co) ==
    IF period_dt = NoDate THEN 0
    ELSE IF period_dt.d <= co THEN MinusDays(period_dt, co).m
    ELSE period_dt.m

\* f"Q{quarter}"
QLabel(q) == CASE q = 1 -> "Q1" [] q = 2 -> "Q2" [] q = 3 -> "Q3" [] OTHER -> "Q4"

quarter_from_no_shift(period_month, fye_month) ==
    IF period_month = 0 \/ fye_month = 0 THEN NoQ
    ELSE LET quarter == ((period_month - fye_month) % 12) \div 3 + 1
         IN IF quarter \in {1, 2, 3} THEN QLabel(quarter) ELSE NoQ

quarter_from(period_month, fye_month) ==
    IF period_month = 0 \/ fye_month = 0 THEN NoQ
    ELSE LET quarter == ((period_month - fye_month - 1) % 12) \div 3 + 1
         IN IF quarter \in {1, 2, 3} THEN QLabel(quarter) ELSE NoQ

(***************************************************************************)
(* html.py: the near set                                                   *)
(***************************************************************************)
_wrap_month(m) == ((m - 1) % 12) + 1

_near_months_set_nowrap(p) ==
    IF p = 0 THEN {} ELSE {p - 1, p, p + 1}

_near_months_set(p) ==
    IF p = 0 THEN {} ELSE {_wrap_month(p - 1), _wrap_month(p), _wrap_month(p + 1)}

_month_distance(p, m) == (m - p) % 12

(***************************************************************************)
(* The calculator on its own: a period-end date and an FYE month go        *)
(* through effective_period_month, _near_months_set and quarter_from, as   *)
(* in the loop of step4_compute_quarter.                                   *)
(***************************************************************************)
CalcYears == {2010, 2012}

CalcDates ==
    {dt \in [y : CalcYears, m : 1..12, d : 1..31] : ValidDate(dt)} \cup {NoDate}

CalcIdle ==
    [step |-> "idle", date |-> NoDate, f |-> 0, p |-> 0, near |-> {}, q |-> NoQ,
     day |-> 0, ctx |-> FALSE, sc |-> 0, sco |-> 0]

\* iter_balance_sheet_headings is not being run on its own
HeadsIdle == [step |-> "idle", text |-> <<>>, out |-> <<>>]

\* enrich_with_section_1a is not running
PoolIdle ==
    [n |-> 0, next |-> 1, wrow |-> <<0, 0>>, wpc |-> <<"free", "free">>,
     tmp |-> <<0, 0>>, counter |-> 0, calls |-> 0, res |-> <<>>, data |-> <<>>,
     applied |-> 0]

\* sec/client.py is not in use
ClientIdle ==
    [phase |-> "off", req |-> FALSE, attempt |-> 0, last_code |-> "None",
     counts |-> [k \in {"200", "404", "503", "EXC"} |-> 0],
     made |-> 0, since |-> 0, gets |-> 0, seen |-> "None", final |-> "None"]

\* main.py is not running
RunIdle == [at |-> 0, start |-> 0, had |-> {}, files |-> {}, ran |-> <<>>, loaded |-> <<>>]

\* deduplicate_quarters is not being run on its own
DedupIdle == [step |-> "idle", df |-> <<>>, once |-> <<>>, twice |-> <<>>]

\* _extract_item_1a is not being run on its own
SectionIdle == [step |-> "idle", text |-> <<>>, at |-> 0, len |-> 0]

\* the period-end resolver is not being run on its own
PeriodIdle ==
    [step |-> "idle", html |-> FALSE, covers |-> <<>>, again |-> FALSE,
     urlok |-> FALSE, hdrs |-> <<>>, out |-> [y |-> 0, m |-> 0, d |-> 0]]

\* html_to_text is not being run on its own
NormIdle == [step |-> "idle", t |-> <<>>, once |-> <<>>, twice |-> <<>>]

\* _extract_dates_from_block is not being run on its own
ScanIdle == [step |-> "idle", block |-> <<>>, limit |-> 0, out |-> <<>>]

MainIdle ==
    /\ row = [quarter |-> NoQ]
    /\ doc = [html |-> FALSE]
    /\ pc = "idle"
    /\ pm = 0
    /\ mm = 0
    /\ tried = <<>>

InitCalc ==
    /\ MainIdle
    /\ pl = PoolIdle
    /\ rq = ClientIdle
    /\ run = RunIdle
    /\ dd = DedupIdle
    /\ sec = SectionIdle
    /\ per = PeriodIdle
    /\ norm = NormIdle
    /\ hd = HeadsIdle
    /\ scan = ScanIdle
    /\ \E dt \in CalcDates, f \in 0..12 :
          calc = [CalcIdle EXCEPT !.step = "start", !.date = dt, !.f = f]

CalcEffective ==
    /\ calc.step = "start"
    /\ calc' = [calc EXCEPT !.step = "eff",
                            !.p = effective_period_month(calc.date, cutoff)]
    /\ UNCHANGED <<row, doc, pc, pm, mm, tried, hd, scan, norm, per, sec, dd, run, rq, pl>>

CalcNear ==
    /\ calc.step = "eff"
    /\ calc' = [calc EXCEPT !.step = "near", !.near = _near_months_set(calc.p)]
    /\ UNCHANGED <<row, doc, pc, pm, mm, tried, hd, scan, norm, per, sec, dd, run, rq, pl>>

CalcQuarter ==
    /\ calc.step = "near"
    /\ calc' = [calc EXCEPT !.step = "done", !.q = quarter_from(calc.p, calc.f)]
    /\ UNCHANGED <<row, doc, pc, pm, mm, tried, hd, scan, norm, per, sec, dd, run, rq, pl>>


(***************************************************************************)
(* Normalized text as a sequence of fragments.                             *)
(*   HU  an all-uppercase statement title ("BALANCE SHEETS")               *)
(*   HA  a mixed-case statement name followed by "as of"                   *)
(*       ("Balance Sheets as of"); with the two DW that follow it, it is   *)
(*       what BAL_ASOF_RE matches                                          *)
(*   AS  an "Assets" mention            ST  an unrelated statement heading *)
(*   DW  a month-word date "Month D, 2010" (DATE_WORD, SPLIT_DATE_RE)      *)
(*   DP  a month-word date split by parenthetical asides                   *)
(*       ("Month D, (Unaudited) 2010": SPLIT_DATE_RE but not DATE_WORD)    *)
(*   DS  a short dashed form "-MM-DD"   MD  "Month D" without a year       *)
(*   MO  a bare month word              FS  "fiscal year ended Month D"    *)
(*   YE  "year ended Month D" without the word fiscal                      *)
(*   GP  800 characters of prose that none of the patterns match           *)
(***************************************************************************)
Tok(k, m, d) == [k |-> k, m |-> m, d |-> d]

Width(t) == IF t.k = "GP" THEN 800 ELSE IF t.k = "HC" THEN 80 ELSE 40

RECURSIVE Start(_, _)
Start(text, i) == IF i = 1 THEN 0 ELSE Start(text, i - 1) + Width(text[i - 1])

End(text, i) == Start(text, i) + Width(text[i])

TextLen(text) == IF Len(text) = 0 THEN 0 ELSE End(text, Len(text))

\* fragment i lies within the slice text[lo:hi]
Inside(text, i, lo, hi) == Start(text, i) >= lo /\ End(text, i) <= hi

MinOf(S) == CHOOSE x \in S : \A y \in S : x <= y

\* the element of a one-element set: Only({e(v) : v \in {x}}) is e(x) with x
\* evaluated once
Only(S) == CHOOSE x \in S : TRUE

Max2(a, b) == IF a >= b THEN a ELSE b

Min2(a, b) == IF a <= b THEN a ELSE b

HasAsof(t) == t.k = "HA"

IsDateWord(t) == t.k = "DW"

\* SPLIT_DATE_RE without its group of parenthetical asides
IsSplitDate_noAside(t) == t.k = "DW"

\* SPLIT_DATE_RE: a month-word date, whole or split by asides
IsSplitDate(t) == t.k \in {"DW", "DP"}

IsDash(t) == t.k = "DS"

\* DATE_ANY_OR_MD_RE
IsDateAnyOrMd(t) == IsDateWord(t) \/ IsDash(t)

\* FY_PHRASE_RE
HasFyPhrase(t) == t.k \in {"FS", "YE"}

\* MONTH_DAY_NOYEAR_RE
IsMonthDay(t) == t.k \in {"DW", "DP", "MD", "FS", "YE"}

\* MONTH_ONLY_RE
IsMonthWord(t) == t.k \in {"DW", "DP", "MD", "FS", "YE", "MO"}

\* pd.to_datetime(ds, errors="coerce"): the month, 0 for NaT
ToMonth(t) == IF t.d >= 1 /\ t.d <= DaysIn(2010, t.m) THEN t.m ELSE 0

\* pd.to_datetime(ds, errors="coerce"): the day of the month, 0 for NaT
ToDay(t) == IF ToMonth(t) = 0 THEN 0 ELSE t.d

(***************************************************************************)
(* patterns.py: the heading locator.  Scores are in thousandths.           *)
(***************************************************************************)
\* a match of a heading pattern inside a title fragment: its tier, the
\* offset of match.start() in the fragment, len(match.group(0)) and the
\* number of TOKENS found in the matched span
Hit(tier, off, len, hits) == [tier |-> tier, off |-> off, len |-> len, hits |-> hits]

\* finditer of UPPER_HEAD_PATTS, ANCHOR_UPPER_PATTS and MIX_HEAD_PATTS over a
\* title fragment; "sal" is a mixed-case match for which has_bs, has_fp and
\* has_fc are all false
PatternMatches(t) ==
    CASE t.k = "HU" -> {Hit("upper", 0, 14, 2)}
      [] t.k = "HA" -> {Hit("mixed", 0, 14, 2)}
      [] t.k = "H1" -> {Hit("upper", 0, 13, 1)}
      [] t.k = "HC" -> {Hit("upper", 34, 37, 4), Hit("upper", 44, 27, 3),
                        Hit("upper", 57, 14, 2), Hit("anchor", 0, 71, 6)}
      [] t.k = "HM" -> {Hit("mixed", 0, 27, 3), Hit("mixed", 13, 14, 2)}
      [] t.k = "HS" -> {Hit("sal", 0, 36, 3)}
      [] OTHER -> {}

\* the generic patterns loosened to any "statements of ..." title
GenericMatches_anyStatement(t) ==
    IF t.k \in {"HU", "HA", "H1", "HC", "HM", "HL", "HS", "ST"}
    THEN {Hit("generic", 0, 14, 1)}
    ELSE {}

\* finditer of GENERIC_HEAD_PATTS over a title fragment
GenericMatches(t) ==
    CASE t.k \in {"HU", "HA"} -> {Hit("generic", 0, 14, 2)}
      [] t.k = "H1" -> {Hit("generic", 0, 13, 1)}
      [] t.k = "HC" -> {Hit("generic", 34, 37, 4)}
      [] t.k \in {"HM", "HL"} -> {Hit("generic", 0, 27, 3)}
      [] t.k = "HS" -> {Hit("generic", 0, 36, 3)}
      [] OTHER -> {}

\* a fragment in which one of the heading patterns of patterns.py matches
IsHead(t) == PatternMatches(t) # {} \/ GenericMatches(t) # {}

\* the vocabulary tokens found in the matched span
TokenHits(h) == h.hits

\* len(match.group(0))
HeadLen(h) == h.len

_heading_score(h, is_upper, is_anchor) ==
    (IF is_upper THEN 30000 ELSE IF is_anchor THEN 25000 ELSE 20000)
        + 1000 * TokenHits(h) + HeadLen(h)

\* a candidate of the locator: the token index i of the fragment, the start of
\* the match in the text, its tier and its score
Cand(text, i, h, sc) ==
    [i |-> i, s |-> Start(text, i) + h.off, tier |-> h.tier, len |-> h.len, sc |-> sc]

\* lines 177-196: the uppercase, anchored and mixed-case candidates
TieredCands(text) ==
    {Cand(text, x[1], x[2],
          _heading_score(x[2], x[2].tier = "upper", x[2].tier = "anchor")) :
        x \in {y \in UNION {{<<i, h>> : h \in PatternMatches(text[i])} :
                               i \in 1..Len(text)} : y[2].tier # "sal"}}

\* lines 199-202: the generic candidates
GenericHeadCands(text) ==
    {Cand(text, x[1], x[2], 15000 + x[2].len) :
        x \in UNION {{<<i, h>> : h \in GenericMatches(text[i])} : i \in 1..Len(text)}}

RECURSIVE SortHeads(_)
\* candidates.sort(key=lambda item: (-item[0], item[1].start()))
SortHeads(S) ==
    IF S = {} THEN <<>>
    ELSE LET best == CHOOSE a \in S : \A b \in S :
                        a.sc > b.sc \/ (a.sc = b.sc /\ a.s <= b.s)
         IN <<best>> \o SortHeads(S \ {best})

iter_balance_sheet_headings(text) ==
    Only({SortHeads(IF c = {} THEN GenericHeadCands(text) ELSE c) :
             c \in {TieredCands(text)}})

(***************************************************************************)
(* html.py: scores                                                         *)
(***************************************************************************)
\* the distance taken without wrapping around the year
DistScore_abs(p, m) ==
    IF p = 0 THEN 0
    ELSE LET dist == IF m >= p THEN m - p ELSE p - m
         IN (IF dist \in {3, 6, 9} THEN 6 ELSE IF dist >= 2 THEN 3 ELSE 0)
            + (IF dist \notin {0, 1, 11} THEN 2 ELSE 0)

DistScore(p, m) ==
    IF p = 0 THEN 0
    ELSE LET dist == _month_distance(p, m)
         IN (IF dist \in {3, 6, 9} THEN 6 ELSE IF dist >= 2 THEN 3 ELSE 0)
            + (IF dist \notin {0, 1, 11} THEN 2 ELSE 0)

_score_candidate(day, m, p, ctx) ==
    DistScore(p, m) + (IF day \in 28..31 THEN 1 ELSE 0) + (IF ctx THEN 4 ELSE 0)

_score_candidate_month_only(m, p, ctx) ==
    DistScore(p, m) + (IF ctx THEN 4 ELSE 0)

\* the day of the candidate's parsed date, 0 when it has none
CandDays == {0, 27, 28, 31}

\* the calculator scores the FYE month f as a candidate against the period
\* month of its date, for a day and a context
CalcScore ==
    /\ calc.step = "done"
    /\ calc.f # 0
    /\ \E day \in CandDays, ctx \in BOOLEAN :
          calc' = [calc EXCEPT
                      !.step = "scored", !.day = day, !.ctx = ctx,
                      !.sc = _score_candidate(day, calc.f, calc.date.m, ctx),
                      !.sco = _score_candidate_month_only(calc.f, calc.date.m, ctx)]
    /\ UNCHANGED <<row, doc, pc, pm, mm, tried, hd, scan, norm, per, sec, dd, run, rq, pl>>

NextCalc == CalcEffective \/ CalcNear \/ CalcQuarter \/ CalcScore

SpecCalc == InitCalc /\ [][NextCalc]_vars

\* FY_PHRASE_RE.search(block[max(0, s-60): min(len(block), e+60)])
CtxHasFy(text, lo, hi, i) ==
    \E j \in 1..Len(text) :
        /\ HasFyPhrase(text[j])
        /\ Inside(text, j, Max2(lo, Start(text, i) - 60), Min2(hi, End(text, i) + 60))

(***************************************************************************)
(* html.py: probe_fye_from_balance_asof over the whole text                *)
(***************************************************************************)
\* a match of BAL_ASOF_RE starts at fragment i
AsofAt(text, i) ==
    /\ i + 2 <= Len(text)
    /\ HasAsof(text[i])
    /\ IsDateWord(text[i + 1])
    /\ IsDateWord(text[i + 2])

\* lines 218-223: the date parses and its month is not in bad_near
Survives(t, bad) == ToMonth(t) # 0 /\ ToMonth(t) \notin bad

RECURSIVE AsofScan(_, _, _)
\* the match the loop returns from and the month it returns, 0 and 0 if none
AsofScan(text, i, bad) ==
    IF i > Len(text) THEN [at |-> 0, m |-> 0]
    ELSE IF ~AsofAt(text, i) THEN AsofScan(text, i + 1, bad)
    ELSE IF Survives(text[i + 2], bad) THEN [at |-> i, m |-> ToMonth(text[i + 2])]
    ELSE IF Survives(text[i + 1], bad) THEN [at |-> i, m |-> ToMonth(text[i + 1])]
    ELSE AsofScan(text, i + 1, bad)

probe_fye_from_balance_asof(text, p) == AsofScan(text, 1, _near_months_set(p)).m

(***************************************************************************)
(* html.py: the date scanner over the block text[lo:hi]                    *)
(***************************************************************************)
Item(text, i, m, day) ==
    [m |-> m, day |-> day, s |-> Start(text, i), e |-> End(text, i), i |-> i]

RECURSIVE SplitScan(_, _, _, _, _, _, _)
SplitScan(text, lo, hi, limit, i, seen, out) ==
    IF i > Len(text) THEN out
    ELSE IF ~(IsSplitDate(text[i]) /\ Inside(text, i, lo, hi))
         THEN SplitScan(text, lo, hi, limit, i + 1, seen, out)
    ELSE LET ds == <<text[i].m, text[i].d>>
         IN IF ds \in seen THEN SplitScan(text, lo, hi, limit, i + 1, seen, out)
            ELSE LET out2 == IF ToMonth(text[i]) # 0
                             THEN Append(out, Item(text, i, ToMonth(text[i]), ToDay(text[i])))
                             ELSE out
                 IN IF Len(out2) >= limit THEN out2
                    ELSE SplitScan(text, lo, hi, limit, i + 1, seen \cup {ds}, out2)

_extract_split_dates_from_block(text, lo, hi, limit) ==
    SplitScan(text, lo, hi, limit, 1, {}, <<>>)

\* int(m.group(1)) of -{1,2}(\d{2})-\d{2}
_mm_from_dash_md(t) == t.m

RECURSIVE GeneralScan(_, _, _, _, _, _, _)
GeneralScan(text, lo, hi, limit, i, seen_spans, out) ==
    IF i > Len(text) THEN out
    ELSE IF ~(IsDateAnyOrMd(text[i]) /\ Inside(text, i, lo, hi))
         THEN GeneralScan(text, lo, hi, limit, i + 1, seen_spans, out)
    ELSE IF i \in seen_spans
         THEN GeneralScan(text, lo, hi, limit, i + 1, seen_spans, out)
    ELSE LET out2 == IF IsDash(text[i])
                     THEN Append(out, Item(text, i, _mm_from_dash_md(text[i]), 0))
                     ELSE IF ToMonth(text[i]) # 0
                     THEN Append(out, Item(text, i, ToMonth(text[i]), ToDay(text[i])))
                     ELSE out
         IN IF Len(out2) >= limit THEN out2
            ELSE GeneralScan(text, lo, hi, limit, i + 1, seen_spans, out2)

_extract_dates_from_block(text, lo, hi, limit) ==
    Only({GeneralScan(text, lo, hi, limit, 1,
                      {merged[k].i : k \in 1..Len(merged)}, merged) :
             merged \in {_extract_split_dates_from_block(text, lo, hi, limit)}})

(***************************************************************************)
(* html.py: probe_fye_from_balance_window                                  *)
(***************************************************************************)
\* ASSETS_NEAR_RE.search(text[start:start + max(window_lo, 800)])
Gate(text, h, window_lo) ==
    \E j \in 1..Len(text) :
        /\ text[j].k = "AS"
        /\ Inside(text, j, End(text, h), End(text, h) + Max2(window_lo, 800))

\* the block text[lo:hi] left as it is
_truncate_at_next_section_none(text, lo, hi) == hi

\* the end of the block text[lo:hi] cut at the first stop heading in it
_truncate_at_next_section(text, lo, hi) ==
    LET stops == {Start(text, j) : j \in {j \in 1..Len(text) :
                        text[j].k = "ST" /\ Inside(text, j, lo, hi)}}
    IN IF stops = {} THEN hi ELSE MinOf(stops)

\* the first match of the as-of patterns in the block, 0 if none
AsofSearch(text, lo, hi) ==
    LET S == {i \in 1..Len(text) :
                 AsofAt(text, i) /\ Start(text, i) >= lo /\ End(text, i + 2) <= hi}
    IN IF S = {} THEN 0 ELSE MinOf(S)

\* lines 261-281: the two dates of the as-of match at fragment a
AsofBranch(text, p, lo, hi, a) ==
    LET bad == _near_months_set(p)
        m1 == ToMonth(text[a + 1])
        m2 == ToMonth(text[a + 2])
        ok1 == Survives(text[a + 1], bad)
        ok2 == Survives(text[a + 2], bad)
        ctx == \E j \in 1..Len(text) : HasFyPhrase(text[j]) /\ Inside(text, j, lo, hi)
        s1 == _score_candidate(ToDay(text[a + 1]), m1, p, ctx)
        s2 == _score_candidate(ToDay(text[a + 2]), m2, p, ctx)
    IN IF ok1 /\ ok2
       THEN (IF s1 > s2 \/ (s1 = s2 /\ m1 >= m2) THEN m1 ELSE m2)
       ELSE IF ok1 THEN m1
       ELSE IF ok2 THEN m2
       ELSE 0

\* cands.sort(key=lambda x: (-x[0], x[1])) over (score, s, mm)
GenericPick(cands) ==
    IF cands = {} THEN 0
    ELSE (CHOOSE x \in cands : \A y \in cands :
              x.sc > y.sc \/ (x.sc = y.sc /\ x.s <= y.s)).m

\* lines 283-300: the generic scan of the block
GenericCands(text, p, lo, hi, items) ==
    LET bad == _near_months_set(p)
        keep == {k \in 1..Len(items) :
                    items[k].m # 0 /\ ~(p # 0 /\ items[k].m \in bad)}
    IN {[sc |-> _score_candidate(items[k].day, items[k].m, p,
                                 CtxHasFy(text, lo, hi, items[k].i)),
         s |-> items[k].s,
         m |-> items[k].m] : k \in keep}

GenericBranch(text, p, lo, hi) ==
    Only({GenericPick(GenericCands(text, p, lo, hi, items)) :
             items \in {_extract_dates_from_block(text, lo, hi, 16)}})

Eval(tier, h, m) == [tier |-> tier, head |-> h, m |-> m]

\* one pass of the loop body for the gated heading at fragment h
WindowBlock(text, p, h, lo, hi) ==
    Only({IF am # 0 THEN [m |-> am, trace |-> <<Eval(2, h, am)>>]
          ELSE Only({[m |-> gm, trace |-> <<Eval(2, h, 0), Eval(3, h, gm)>>] :
                        gm \in {GenericBranch(text, p, lo, hi)}}) :
             am \in {Only({IF a = 0 THEN 0 ELSE AsofBranch(text, p, lo, hi, a) :
                              a \in {AsofSearch(text, lo, hi)}})}})

WindowHead(text, p, h, window_hi) ==
    Only({WindowBlock(text, p, h, lo,
                      _truncate_at_next_section(text, lo,
                                                Min2(TextLen(text), lo + window_hi))) :
             lo \in {End(text, h)}})

RECURSIVE WindowLoop(_, _, _, _, _, _)
WindowLoop(text, p, heads, k, window_lo, window_hi) ==
    IF k > Len(heads) THEN [m |-> 0, trace |-> <<>>]
    ELSE IF ~Gate(text, heads[k].i, window_lo)
         THEN WindowLoop(text, p, heads, k + 1, window_lo, window_hi)
    ELSE Only({IF r.m # 0 THEN r
               ELSE Only({[m |-> rest.m, trace |-> r.trace \o rest.trace] :
                             rest \in {WindowLoop(text, p, heads, k + 1,
                                                  window_lo, window_hi)}}) :
                  r \in {WindowHead(text, p, heads[k].i, window_hi)}})

\* lines 429-438 with the candidates ranked by position alone
MonthOnlyPick_first(cands) ==
    (CHOOSE x \in cands : \A y \in cands : x.pos <= y.pos).m

\* lines 429-438: one best candidate per month, then the best of those
MonthOnlyPick(cands) ==
    LET best_by_month == {x \in cands : \A y \in cands :
                             y.m = x.m => (x.sc > y.sc \/ (x.sc = y.sc /\ x.pos <= y.pos))}
    IN (CHOOSE x \in best_by_month : \A y \in best_by_month :
            x.sc > y.sc \/ (x.sc = y.sc /\ x.pos <= y.pos)).m

RECURSIVE FallbackLoop(_, _, _, _, _, _)
FallbackLoop(text, p, heads, k, window_lo, window_hi) ==
    IF k > Len(heads) THEN 0
    ELSE IF ~Gate(text, heads[k].i, window_lo)
         THEN FallbackLoop(text, p, heads, k + 1, window_lo, window_hi)
    ELSE LET lo == End(text, heads[k].i)
             hi == Min2(TextLen(text), lo + window_hi)
             bad == _near_months_set(p)
             pass1 == {[sc |-> _score_candidate_month_only(text[i].m, p,
                                                           CtxHasFy(text, lo, hi, i)),
                        m |-> text[i].m,
                        pos |-> Start(text, i)] :
                          i \in {i \in 1..Len(text) :
                                    /\ IsMonthDay(text[i]) /\ Inside(text, i, lo, hi)
                                    /\ ~(p # 0 /\ text[i].m \in bad)}}
             pass2 == {[sc |-> _score_candidate_month_only(text[i].m, p,
                                                           CtxHasFy(text, lo, hi, i)) - 1,
                        m |-> text[i].m,
                        pos |-> Start(text, i)] :
                          i \in {i \in 1..Len(text) :
                                    /\ IsMonthWord(text[i]) /\ Inside(text, i, lo, hi)
                                    /\ ~(p # 0 /\ text[i].m \in bad)}}
             candidates == IF pass1 # {} THEN pass1 ELSE pass2
         IN IF candidates = {}
            THEN FallbackLoop(text, p, heads, k + 1, window_lo, window_hi)
            ELSE MonthOnlyPick(candidates)

_fallback_month_only_from_balance_block(text, p, window_lo, window_hi) ==
    Only({FallbackLoop(text, p, heads, 1, window_lo, window_hi) :
             heads \in {iter_balance_sheet_headings(text)}})

probe_fye_from_balance_window(text, p, window_lo, window_hi) ==
    Only({IF r.m # 0 THEN r
          ELSE Only({[m |-> mm_last, trace |-> r.trace \o <<Eval(4, 0, mm_last)>>] :
                        mm_last \in {_fallback_month_only_from_balance_block(
                                         text, p, 500, 2500)}}) :
             r \in {Only({WindowLoop(text, p, heads, 1, window_lo, window_hi) :
                             heads \in {iter_balance_sheet_headings(text)}})}})

(***************************************************************************)
(* html.py: probe_fye_from_text                                            *)
(***************************************************************************)
month_in_near_set(candidate_m, period_m) ==
    IF period_m = 0 THEN FALSE ELSE candidate_m \in _near_months_set(period_m)

\* a match of one of FYE_PATTS
IsFyeSentence(t) == t.k \in {"FS", "YE"}

\* the place in FYE_PATTS of the first pattern that matches the fragment:
\* "fiscal year ended Month D" matches the first pattern, "year ended
\* Month D" only the third
FyePattern(t) == IF t.k = "FS" THEN 1 ELSE 3

\* for pattern in FYE_PATTS: for match in pattern.finditer(text)
probe_fye_from_text(text, p) ==
    LET S == {i \in 1..Len(text) :
                 /\ IsFyeSentence(text[i])
                 /\ (p = 0 \/ ~month_in_near_set(text[i].m, p))}
    IN IF S = {} THEN 0
       ELSE text[CHOOSE i \in S : \A j \in S :
                    \/ FyePattern(text[i]) < FyePattern(text[j])
                    \/ FyePattern(text[i]) = FyePattern(text[j]) /\ i <= j].m

(***************************************************************************)
(* patterns.py: the inline DEI tags of the raw markup                      *)
(***************************************************************************)
\* the month digits of a CurrentFiscalYearEndDate tag, 0 when there is no tag
_parse_mm_from_fye_text(n) == IF 1 <= n /\ n <= 12 THEN n ELSE 0

extract_dei_from_html(dei) ==
    [pf |-> dei.pf, fye_month |-> _parse_mm_from_fye_text(dei.fye), period_end |-> dei.pe]

\* COVER_RE.search(text): the cover sentence precedes every fragment of doc.text
probe_period(d) == d.cover

(***************************************************************************)
(* The documents and rows the pipeline is run on                           *)
(***************************************************************************)
MaxPhrases == 2

Jan2 == Tok("DW", 1, 2)

Apr30 == Tok("DW", 4, 30)

Jul3 == Tok("DW", 7, 3)

HA == Tok("HA", 0, 0)

\* "March 31" without a year
Mar31 == Tok("MD", 3, 31)

Phrases ==
    { <<Tok("HU", 0, 0), Tok("AS", 0, 0)>>,
      <<Tok("AS", 0, 0)>>,
      <<Tok("ST", 0, 0)>>,
      <<Tok("GP", 0, 0)>>,
      <<Jan2>>, <<Apr30>>, <<Jul3>>,
      <<Tok("DS", 13, 1)>>,
      <<Tok("FS", 6, 30)>>,
      <<Tok("MO", 12, 0)>>,
      <<HA, Jul3, Jan2>>,
      <<HA, Apr30, Jan2>>,
      <<HA, Jan2, Jul3>>,
      <<Jan2, Tok("ST", 0, 0), Apr30>>,
      <<Tok("YE", 3, 31)>>,
      <<Mar31, Tok("MO", 12, 0)>>,
      <<Mar31, Tok("MO", 12, 0), Tok("FS", 6, 30)>> }

RECURSIVE Flatten(_)
Flatten(ps) == IF Len(ps) = 0 THEN <<>> ELSE Head(ps) \o Flatten(Tail(ps))

Texts ==
    {Flatten(ps) : ps \in UNION {[1..n -> Phrases] : n \in 0..MaxPhrases}}

CoverDate == [y |-> 2010, m |-> 7, d |-> 3]

DeiDate == [y |-> 2010, m |-> 10, d |-> 31]

DecDate == [y |-> 2010, m |-> 12, d |-> 31]

NoDei == [pf |-> "none", fye |-> 0, pe |-> NoDate]

NoDoc == [html |-> FALSE, dei |-> NoDei, cover |-> NoDate, text |-> <<>>]

Row(q, sub, api) ==
    [quarter |-> q, sub |-> sub, api |-> api, peh |-> NoDate, fyh |-> 0,
     ped |-> NoDate, fye |-> 0]

\* the scenario of the spec: "... BALANCE SHEETS ... As of July 3, 2010 and
\* January 2, 2010 Assets ..."
ScenarioText == <<HA, Jul3, Jan2, Tok("AS", 0, 0)>>

\* the month-only scenario of the spec: a heading, Assets, and a window with
\* only "March 31" and "December"
MonthOnlyText == <<Tok("HU", 0, 0), Tok("AS", 0, 0), Mar31, Tok("MO", 12, 0)>>

\* many texts, the row's columns all missing
InitTexts ==
    /\ row = Row(NoQ, NoDate, 0)
    /\ \/ doc = NoDoc
       \/ \E t \in Texts, f \in {0, 10, 13}, pe \in {NoDate, DeiDate},
             c \in {NoDate, CoverDate} :
             doc = [html |-> TRUE, dei |-> [pf |-> "none", fye |-> f, pe |-> pe],
                    cover |-> c, text |-> t]

\* config.py line 11 and steps.py line 67: merged["fp"].map(FP_TO_Q); a value
\* of fp that is no key of the dictionary maps to a missing quarter
FP_TO_Q_asIs(fp) == fp

FP_TO_Q(fp) ==
    CASE fp \in {"Q1", "Q2", "Q3"} -> fp
      [] fp = "H1" -> "Q2"
      [] fp = "M9" -> "Q3"
      [] OTHER -> NoQ

\* many rows, a few texts; the quarter is the one step1_sub wrote from the
\* fp of the row's filing in sub_map.csv
InitRows ==
    /\ \E fp \in {"none", "Q1", "FY"}, sub \in {NoDate, CoverDate}, api \in {0, 1, 7} :
          row = Row(FP_TO_Q(fp), sub, api)
    /\ \/ doc = NoDoc
       \/ \E t \in {<<>>, ScenarioText, MonthOnlyText}, pf \in {"none", "Q2", "FY"},
             f \in {0, 12}, pe \in {NoDate, DeiDate, DecDate}, c \in {NoDate, CoverDate} :
             doc = [html |-> TRUE, dei |-> [pf |-> pf, fye |-> f, pe |-> pe],
                    cover |-> c, text |-> t]

Init ==
    /\ InitTexts \/ InitRows
    /\ pc = "start"
    /\ pm = 0
    /\ mm = 0
    /\ tried = <<>>
    /\ calc = CalcIdle
    /\ pl = PoolIdle
    /\ rq = ClientIdle
    /\ run = RunIdle
    /\ dd = DedupIdle
    /\ sec = SectionIdle
    /\ per = PeriodIdle
    /\ norm = NormIdle
    /\ hd = HeadsIdle
    /\ scan = ScanIdle

(***************************************************************************)
(* steps.py: step3_html_parse, the body of the loop for one row            *)
(***************************************************************************)
window_lo == 500

window_hi == 1500

\* line 114: the rows the loop visits
Selected(r) ==
    \/ r.quarter = NoQ
    \/ (r.sub = NoDate /\ r.peh = NoDate)
    \/ (r.fyh = 0 /\ r.api = 0)

S3_Skip ==
    /\ pc = "start"
    /\ ~Selected(row)
    /\ pc' = "step4"
    /\ UNCHANGED <<row, doc, pm, mm, tried, calc, hd, scan, norm, per, sec, dd, run, rq, pl>>

\* lines 124-143: fetch the document, read the inline DEI tags
S3_Dei ==
    /\ pc = "start"
    /\ Selected(row)
    /\ LET dei == extract_dei_from_html(doc.dei)
       IN IF doc.html
          THEN /\ row' = [row EXCEPT
                            !.peh = IF dei.period_end # NoDate THEN dei.period_end ELSE @,
                            !.fyh = IF dei.fye_month # 0 THEN dei.fye_month ELSE @,
                            !.quarter = IF dei.pf \in {"Q1", "Q2", "Q3"} /\ @ = NoQ
                                        THEN dei.pf ELSE @]
               /\ pm' = IF dei.period_end # NoDate THEN dei.period_end.m ELSE 0
               /\ tried' = <<Eval(1, 0, dei.fye_month)>>
          ELSE UNCHANGED <<row, pm, tried>>
    /\ pc' = "period"
    /\ UNCHANGED <<doc, mm, calc, hd, scan, norm, per, sec, dd, run, rq, pl>>

\* lines 323-354: the second fetch of the document, then the header of the
\* full submission text; both depend on the network
fetch_html_then_txt_period(d, again, hdr) ==
    IF again # NoDate THEN again ELSE hdr

\* lines 145-159: the period end
S3_Period ==
    /\ pc = "period"
    /\ IF row.peh = NoDate
       THEN \E again \in (IF doc.html THEN {probe_period(doc)} ELSE {NoDate, CoverDate}),
               hdr \in {NoDate, CoverDate} :
               LET dt0 == IF doc.html THEN probe_period(doc) ELSE NoDate
                   dt == IF dt0 # NoDate THEN dt0
                         ELSE fetch_html_then_txt_period(doc, again, hdr)
               IN /\ row' = [row EXCEPT !.peh = IF dt # NoDate THEN dt ELSE @]
                  /\ pm' = IF dt # NoDate THEN dt.m ELSE pm
       ELSE /\ pm' = IF pm = 0 THEN row.peh.m ELSE pm
            /\ UNCHANGED row
    /\ pc' = "asof"
    /\ UNCHANGED <<doc, mm, tried, calc, hd, scan, norm, per, sec, dd, run, rq, pl>>

\* line 162, with every document fetched
NeedsFyeProbe_any(r, d) == d.html

\* line 162: if html and pd.isna(df.at[i, "_fye_month_html"])
NeedsFyeProbe(r, d) == d.html /\ r.fyh = 0

\* line 162 false: the FYE probes are not run
S3_NoProbe ==
    /\ pc = "asof"
    /\ ~NeedsFyeProbe(row, doc)
    /\ pc' = "step4"
    /\ UNCHANGED <<row, doc, pm, mm, tried, calc, hd, scan, norm, per, sec, dd, run, rq, pl>>

\* line 165
S3_Asof ==
    /\ pc = "asof"
    /\ NeedsFyeProbe(row, doc)
    /\ mm' = probe_fye_from_balance_asof(doc.text, pm)
    /\ tried' = Append(tried, Eval(2, 0, mm'))
    /\ pc' = "window"
    /\ UNCHANGED <<row, doc, pm, calc, hd, scan, norm, per, sec, dd, run, rq, pl>>

\* lines 166-167 without the test of line 166
S3_Window_always ==
    /\ pc = "window"
    /\ \E r \in {probe_fye_from_balance_window(doc.text, pm, window_lo, window_hi)} :
          /\ mm' = r.m
          /\ tried' = tried \o r.trace
    /\ pc' = "text"
    /\ UNCHANGED <<row, doc, pm, calc, hd, scan, norm, per, sec, dd, run, rq, pl>>

\* lines 166-167
S3_Window ==
    /\ pc = "window"
    /\ IF mm = 0
       THEN \E r \in {probe_fye_from_balance_window(doc.text, pm, window_lo, window_hi)} :
               /\ mm' = r.m
               /\ tried' = tried \o r.trace
       ELSE UNCHANGED <<mm, tried>>
    /\ pc' = "text"
    /\ UNCHANGED <<row, doc, pm, calc, hd, scan, norm, per, sec, dd, run, rq, pl>>

\* lines 168-171
S3_Text ==
    /\ pc = "text"
    /\ \E m5 \in {IF mm = 0 THEN probe_fye_from_text(doc.text, pm) ELSE mm} :
          /\ mm' = m5
          /\ tried' = IF mm = 0 THEN Append(tried, Eval(5, 0, m5)) ELSE tried
          /\ row' = [row EXCEPT !.fyh = IF m5 # 0 THEN m5 ELSE @]
    /\ pc' = "step4"
    /\ UNCHANGED <<doc, pm, calc, hd, scan, norm, per, sec, dd, run, rq, pl>>

(***************************************************************************)
(* steps.py: step4_compute_quarter for the row                             *)
(***************************************************************************)
\* lines 188-198 with the API month preferred to the HTML month
choose_fye_month_api_first(r, ped) ==
    IF r.api # 0 THEN r.api ELSE r.fyh

choose_fye_month(r, ped) ==
    IF r.fyh # 0
    THEN (IF ped # NoDate /\ r.fyh = ped.m THEN r.api ELSE r.fyh)
    ELSE r.api

Step4 ==
    /\ pc = "step4"
    /\ LET ped == IF row.sub # NoDate THEN row.sub ELSE row.peh
           fm == choose_fye_month(row, ped)
           q == quarter_from(effective_period_month(ped, cutoff), fm)
       IN row' = [row EXCEPT !.ped = ped, !.fye = fm,
                             !.quarter = IF @ = NoQ /\ ped # NoDate /\ fm # 0 /\ q # NoQ
                                         THEN q ELSE @]
    /\ pc' = "done"
    /\ UNCHANGED <<doc, pm, mm, tried, calc, hd, scan, norm, per, sec, dd, run, rq, pl>>

Next ==
    \/ S3_Skip
    \/ S3_Dei
    \/ S3_Period
    \/ S3_NoProbe
    \/ S3_Asof
    \/ S3_Window
    \/ S3_Text
    \/ Step4

Spec == Init /\ [][Next]_vars

\* C30: a row's quarter, once it is not missing, is never changed by a later
\* step: step3 and step4 write only into a missing quarter, and every label
\* a step writes (step1 from FP_TO_Q, step3 from the inline fiscal period,
\* step4 from quarter_from) is one of Q1, Q2, Q3
C30_QuarterFrame ==
    /\ [](row.quarter \in {NoQ, "Q1", "Q2", "Q3"})
    /\ [][row.quarter # NoQ => row'.quarter = row.quarter]_vars

\* step1 wrote Q1, step3 read an inline fiscal period of Q2 and step4 had a
\* period end and a fiscal year end to compute from; the row still holds Q1
C30_Witness ==
    /\ pc = "done"
    /\ row.quarter = "Q1"
    /\ doc.html
    /\ doc.dei.pf = "Q2"
    /\ tried # <<>>
    /\ row.ped # NoDate
    /\ row.fye # 0

(***************************************************************************)
(* iter_balance_sheet_headings run on its own over documents of titles     *)
(***************************************************************************)
MaxTitles == 3

\* "BALANCE SHEETS", "Balance Sheets as of", "BALANCE SHEET",
\* "CONSOLIDATED FINANCIAL STATEMENTS CONDENSED CONSOLIDATED BALANCE SHEETS",
\* "Consolidated Balance Sheets", "Statements of Assets and Liabilities",
\* "consolidated balance sheets"
Titles == {Tok(k, 0, 0) : k \in {"HU", "HA", "H1", "HC", "HM", "HS", "HL"}}

TitleTexts == UNION {[1..n -> Titles] : n \in 0..MaxTitles}

InitHeads ==
    /\ MainIdle
    /\ calc = CalcIdle
    /\ pl = PoolIdle
    /\ rq = ClientIdle
    /\ run = RunIdle
    /\ dd = DedupIdle
    /\ sec = SectionIdle
    /\ per = PeriodIdle
    /\ norm = NormIdle
    /\ scan = ScanIdle
    /\ \E t \in TitleTexts : hd = [step |-> "start", text |-> t, out |-> <<>>]

\* one call of iter_balance_sheet_headings(text); out is the sorted candidate
\* list, each match with the score it was sorted by
LocateHeads ==
    /\ hd.step = "start"
    /\ hd' = [hd EXCEPT !.step = "done", !.out = iter_balance_sheet_headings(hd.text)]
    /\ UNCHANGED <<row, doc, pc, pm, mm, tried, calc, scan, norm, per, sec, dd, run, rq, pl>>

NextHeads == LocateHeads

SpecHeads == InitHeads /\ [][NextHeads]_vars

(***************************************************************************)
(* _extract_dates_from_block run on its own over blocks of date tokens     *)
(***************************************************************************)
MaxBlock == 4

MaxLimit == 3

\* "January 2, 2010", "April 30, 2010", "February 30, 2010" (parsed to NaT),
\* the dashed form "-12-31" and the split forms "April 30, (Unaudited) 2010"
\* and "December 31, (Unaudited) 2010"
ScanTokens ==
    {Jan2, Apr30, Tok("DW", 2, 30), Tok("DS", 12, 31),
     Tok("DP", 4, 30), Tok("DP", 12, 31)}

ScanBlocks == UNION {[1..n -> ScanTokens] : n \in 0..MaxBlock}

InitScan ==
    /\ MainIdle
    /\ calc = CalcIdle
    /\ pl = PoolIdle
    /\ rq = ClientIdle
    /\ run = RunIdle
    /\ dd = DedupIdle
    /\ sec = SectionIdle
    /\ per = PeriodIdle
    /\ norm = NormIdle
    /\ hd = HeadsIdle
    /\ \E b \in ScanBlocks, l \in 1..MaxLimit :
          scan = [step |-> "start", block |-> b, limit |-> l, out |-> <<>>]

\* one call of _extract_dates_from_block(block, limit)
ScanBlock ==
    /\ scan.step = "start"
    /\ scan' = [scan EXCEPT !.step = "done",
                            !.out = _extract_dates_from_block(
                                        scan.block, 0, TextLen(scan.block), scan.limit)]
    /\ UNCHANGED <<row, doc, pc, pm, mm, tried, calc, hd, norm, per, sec, dd, run, rq, pl>>

NextScan == ScanBlock

SpecScan == InitScan /\ [][NextScan]_vars

(***************************************************************************)
(* html.py, utils/text.py: html_to_text run on its own.  A raw text is a   *)
(* sequence of the units "&", "amp;", "lt;", "gt;", "<", ">", "b" (a       *)
(* letter), " ", "Page" and "1" (a digit).  The units hold no comment,     *)
(* script or style element and no no-break space, so those substitutions   *)
(* leave every such text as it is.                                         *)
(***************************************************************************)
MaxUnits == 4

Units == {"&", "amp;", "lt;", "gt;", "<", ">", "b", " ", "Page", "1"}

RawTexts == UNION {[1..n -> Units] : n \in 0..MaxUnits}

RECURSIVE unescape(_)
\* pyhtml.unescape: one left-to-right pass, the decoded text is not rescanned
unescape(t) ==
    IF Len(t) = 0 THEN <<>>
    ELSE IF t[1] = "&" /\ Len(t) >= 2 /\ t[2] \in {"amp;", "lt;", "gt;"}
         THEN <<CASE t[2] = "amp;" -> "&" [] t[2] = "lt;" -> "<" [] t[2] = "gt;" -> ">">>
                  \o unescape(SubSeq(t, 3, Len(t)))
    ELSE <<t[1]>> \o unescape(Tail(t))

\* the first position from i on that holds unit u, Len(t) + 1 when none does
FirstAt(t, i, u) ==
    IF \E j \in i..Len(t) : t[j] = u
    THEN MinOf({j \in i..Len(t) : t[j] = u})
    ELSE Len(t) + 1

\* the first position from i on that does not hold unit u
SkipRun(t, i, u) ==
    IF \E j \in i..Len(t) : t[j] # u
    THEN MinOf({j \in i..Len(t) : t[j] # u})
    ELSE Len(t) + 1

RECURSIVE StripTags(_, _)
\* re.sub(r"<[^>]+>", " ", text), scanning from position i
StripTags(t, i) ==
    IF i > Len(t) THEN <<>>
    ELSE LET j == FirstAt(t, i + 1, ">")
         IN IF t[i] = "<" /\ j <= Len(t) /\ j > i + 1
            THEN <<" ">> \o StripTags(t, j + 1)
            ELSE <<t[i]>> \o StripTags(t, i + 1)

RECURSIVE StripPage(_, _)
\* PAGE_TOKEN_RE.sub(" ", text), scanning from position i: "Page\s*\d+" and
\* "\d+\s*PAGE"
StripPage(t, i) ==
    IF i > Len(t) THEN <<>>
    ELSE LET afterSp == SkipRun(t, i + 1, " ")
             afterNum == SkipRun(t, i, "1")
             afterNumSp == SkipRun(t, afterNum, " ")
         IN IF t[i] = "Page" /\ afterSp <= Len(t) /\ t[afterSp] = "1"
            THEN <<" ">> \o StripPage(t, SkipRun(t, afterSp, "1"))
            ELSE IF t[i] = "1" /\ afterNumSp <= Len(t) /\ t[afterNumSp] = "Page"
            THEN <<" ">> \o StripPage(t, afterNumSp + 1)
            ELSE <<t[i]>> \o StripPage(t, i + 1)

strip_page_tokens(t) == IF t = <<>> THEN t ELSE StripPage(t, 1)

RECURSIVE Collapse(_)
\* re.sub(r"\s+", " ", text)
Collapse(t) ==
    IF Len(t) = 0 THEN <<>>
    ELSE IF t[1] = " " /\ Len(t) >= 2 /\ t[2] = " " THEN Collapse(Tail(t))
    ELSE <<t[1]>> \o Collapse(Tail(t))

\* str.strip() of a text whose whitespace runs are single spaces
Strip(t) ==
    LET a == IF Len(t) > 0 /\ t[1] = " " THEN Tail(t) ELSE t
    IN IF Len(a) > 0 /\ a[Len(a)] = " " THEN SubSeq(a, 1, Len(a) - 1) ELSE a

html_to_text(html) ==
    Strip(Collapse(strip_page_tokens(StripTags(unescape(html), 1))))

InitNorm ==
    /\ MainIdle
    /\ calc = CalcIdle
    /\ pl = PoolIdle
    /\ rq = ClientIdle
    /\ run = RunIdle
    /\ dd = DedupIdle
    /\ sec = SectionIdle
    /\ per = PeriodIdle
    /\ hd = HeadsIdle
    /\ scan = ScanIdle
    /\ \E t \in RawTexts : norm = [NormIdle EXCEPT !.step = "start", !.t = t]

\* html_to_text(t)
NormFirst ==
    /\ norm.step = "start"
    /\ norm' = [norm EXCEPT !.step = "once", !.once = html_to_text(norm.t)]
    /\ UNCHANGED <<row, doc, pc, pm, mm, tried, calc, hd, scan, per, sec, dd, run, rq, pl>>

\* html_to_text applied to its own result
NormSecond ==
    /\ norm.step = "once"
    /\ norm' = [norm EXCEPT !.step = "twice", !.twice = html_to_text(norm.once)]
    /\ UNCHANGED <<row, doc, pc, pm, mm, tried, calc, hd, scan, per, sec, dd, run, rq, pl>>

NextNorm == NormFirst \/ NormSecond

SpecNorm == InitNorm /\ [][NextNorm]_vars

(***************************************************************************)
(* steps.py 145-159, html.py 197-204 and 323-354: the period-end resolver  *)
(* run on its own for one row whose period end is missing.  covers holds   *)
(* the dates of the cover sentences of the document in document order;     *)
(* hdrs holds what the two submission-text candidates give.                *)
(***************************************************************************)
MaxCovers == 2

\* "for the quarterly period ended July 3, 2010" and "... February 30, 2010"
CoverSentences == {Jul3, Tok("DW", 2, 30)}

CoverTexts == UNION {[1..n -> CoverSentences] : n \in 0..MaxCovers}

\* the header date "CONFORMED PERIOD OF REPORT: 20100630"
HdrDate == [y |-> 2010, m |-> 6, d |-> 30]

\* a submission text: not fetched, fetched without the header line, with a
\* header date that does not parse ("20101341"), with one that does
HdrOutcomes == {"nofetch", "nomatch", "bad", "ok"}

\* pd.to_datetime(raw_date, errors="coerce") of a month-word date of 2010
ToDate(t) == IF ToMonth(t) = 0 THEN NoDate ELSE [y |-> 2010, m |-> t.m, d |-> t.d]

\* html.py 198-203: COVER_RE.search takes the first cover sentence only
FirstCover(covers) == IF Len(covers) = 0 THEN NoDate ELSE ToDate(covers[1])

\* html.py 329-353: the header date of the first candidate that is fetched,
\* has the header line and parses
HeaderPeriod(urlok, hdrs) ==
    IF ~urlok THEN NoDate
    ELSE IF \E k \in 1..Len(hdrs) : hdrs[k] = "ok" THEN HdrDate
    ELSE NoDate

InitPeriod ==
    /\ MainIdle
    /\ calc = CalcIdle
    /\ pl = PoolIdle
    /\ rq = ClientIdle
    /\ run = RunIdle
    /\ dd = DedupIdle
    /\ sec = SectionIdle
    /\ hd = HeadsIdle
    /\ scan = ScanIdle
    /\ norm = NormIdle
    /\ \E h \in BOOLEAN, c \in CoverTexts, a \in BOOLEAN, u \in BOOLEAN,
          hs \in [1..2 -> HdrOutcomes] :
          per = [PeriodIdle EXCEPT !.step = "start", !.html = h, !.covers = c,
                                   !.again = a, !.urlok = u, !.hdrs = hs]

\* steps.py 146-155: dt of a row whose _period_end_date_html is missing
ResolvePeriod ==
    /\ per.step = "start"
    /\ LET d == [cover |-> FirstCover(per.covers)]
           dt0 == IF per.html THEN probe_period(d) ELSE NoDate
           dt == IF dt0 # NoDate THEN dt0
                 ELSE fetch_html_then_txt_period(
                          d, IF per.again THEN probe_period(d) ELSE NoDate,
                          HeaderPeriod(per.urlok, per.hdrs))
       IN per' = [per EXCEPT !.step = "done", !.out = dt]
    /\ UNCHANGED <<row, doc, pc, pm, mm, tried, calc, hd, scan, norm, sec, dd, run, rq, pl>>

NextPeriod == ResolvePeriod

SpecPeriod == InitPeriod /\ [][NextPeriod]_vars

(***************************************************************************)
(* pipeline/section1a.py: _extract_item_1a run on its own.  A normalized   *)
(* text is a sequence of the pieces                                        *)
(*   I1  "Item 1A. "         IX  "Item 1A). " (a cross-reference)          *)
(*   RF  "Risk Factors "     W   100 characters of prose                   *)
(*   L   600 characters of prose                                           *)
(*   NI  "Item 2. " (a heading that ends a section)                        *)
(*   PT  "PART II. OTHER INFORMATION "                                     *)
(***************************************************************************)
MaxPieces == 5

Pieces == {"I1", "IX", "RF", "W", "L", "NI", "PT"}

PieceWidth(x) ==
    CASE x = "I1" -> 9 [] x = "IX" -> 10 [] x = "RF" -> 13 [] x = "W" -> 100
      [] x = "L" -> 600 [] x = "NI" -> 8 [] x = "PT" -> 27

SectionTexts == UNION {[1..n -> Pieces] : n \in 0..MaxPieces}

RECURSIVE SpanLen(_, _, _)
\* the characters of pieces a..b
SpanLen(text, a, b) ==
    IF a > b THEN 0 ELSE PieceWidth(text[a]) + SpanLen(text, a + 1, b)

RECURSIVE SectionMatches(_, _)
\* ITEM_SECTION_RE.finditer(norm) from piece i on: a header at h, the body up
\* to the next ending heading at e (or the end of the text)
SectionMatches(text, i) ==
    IF i > Len(text) THEN <<>>
    ELSE IF text[i] \in {"I1", "IX"}
         THEN LET e == IF \E j \in (i + 1)..Len(text) : text[j] = "NI"
                       THEN MinOf({j \in (i + 1)..Len(text) : text[j] = "NI"})
                       ELSE Len(text) + 1
              IN <<[h |-> i, e |-> e]>> \o SectionMatches(text, e)
    ELSE SectionMatches(text, i + 1)

\* len(body)
BodyLen(text, c) == SpanLen(text, c.h + 1, c.e - 1)

\* RISK_PHRASE_RE.search(body[:512]); the header holds no letters after "1A"
HasRisk(text, c) ==
    \E j \in (c.h + 1)..(c.e - 1) :
        text[j] = "RF" /\ SpanLen(text, c.h + 1, j - 1) + 11 <= 512

\* no comma and no parenthesis in the header
CleanHeader(text, c) == text[c.h] = "I1"

\* _score(match) of a candidate with a non-empty body
SectionScore(text, c) ==
    <<IF HasRisk(text, c) THEN 1 ELSE 0, IF CleanHeader(text, c) THEN 1 ELSE 0,
      BodyLen(text, c)>>

\* the candidates compared by body length alone
ScoreLess_byLength(a, b) == a[3] < b[3]

\* the order of the score tuples
ScoreLess(a, b) ==
    \/ a[1] < b[1]
    \/ a[1] = b[1] /\ a[2] < b[2]
    \/ a[1] = b[1] /\ a[2] = b[2] /\ a[3] < b[3]

\* _trim_trailing_sections: the length left of a section
TrimmedLen(text, c) ==
    LET pts == {j \in (c.h + 1)..(c.e - 1) : text[j] = "PT"}
        first == SpanLen(text, c.h + 1, MinOf(pts) - 1)
    IN IF pts # {} /\ first > 100 THEN first ELSE BodyLen(text, c)

\* the header piece of the section returned and the length returned; at = 0
\* for None
_extract_item_1a(text) ==
    LET ms == SectionMatches(text, 1)
        scored == {k \in 1..Len(ms) : BodyLen(text, ms[k]) > 0}
        \* max(scored, key=...): the first candidate no other one exceeds
        best == MinOf({k \in scored : \A n \in scored :
                          ~ScoreLess(SectionScore(text, ms[k]), SectionScore(text, ms[n]))})
    IN IF scored = {} THEN [at |-> 0, len |-> 0]
       ELSE [at |-> ms[best].h, len |-> TrimmedLen(text, ms[best])]

InitSection ==
    /\ MainIdle
    /\ calc = CalcIdle
    /\ pl = PoolIdle
    /\ rq = ClientIdle
    /\ run = RunIdle
    /\ dd = DedupIdle
    /\ hd = HeadsIdle
    /\ scan = ScanIdle
    /\ norm = NormIdle
    /\ per = PeriodIdle
    /\ \E t \in SectionTexts : sec = [SectionIdle EXCEPT !.step = "start", !.text = t]

\* one call of _extract_item_1a(text)
ExtractItem1a ==
    /\ sec.step = "start"
    /\ \E r \in {_extract_item_1a(sec.text)} :
          sec' = [sec EXCEPT !.step = "done", !.at = r.at, !.len = r.len]
    /\ UNCHANGED <<row, doc, pc, pm, mm, tried, calc, hd, scan, norm, per, dd, run, rq, pl>>

NextSection == ExtractItem1a

SpecSection == InitSection /\ [][NextSection]_vars

(***************************************************************************)
(* pipeline/section1a.py: deduplicate_quarters run on its own.  A frame is *)
(* a sequence of rows [g, w, f]: g the value of the grouping columns, w    *)
(* total_words, f filedAt as a day number, 0 for a filedAt that does not   *)
(* parse (filled with the epoch).  The index of a frame is 1..Len.         *)
(***************************************************************************)
MaxRows == 3

FrameRows == [g : {1, 2}, w : {0, 3}, f : {0, 1, 2}]

Frames == UNION {[1..n -> FrameRows] : n \in 0..MaxRows}

\* _select_index taking the latest row of the group whatever its word count
_select_index_latest(df, group) ==
    MinOf({i \in group : \A j \in group : df[j].f <= df[i].f})

\* _select_index(group): idxmax is the first index that holds the maximum
_select_index(df, group) ==
    LET non_zero == {i \in group : df[i].w > 0}
        from == IF non_zero # {} THEN non_zero ELSE group
    IN MinOf({i \in from : \A j \in from : df[j].f <= df[i].f})

RECURSIVE SortRows(_, _)
\* sort_values(group_cols + ["filedAt"]) of the rows df[i], i in S
SortRows(df, S) ==
    IF S = {} THEN <<>>
    ELSE LET first == MinOf({i \in S : \A j \in S :
                                \/ df[i].g < df[j].g
                                \/ df[i].g = df[j].g /\ df[i].f <= df[j].f})
         IN <<df[first]>> \o SortRows(df, S \ {first})

deduplicate_quarters(df) ==
    LET groups == {{i \in 1..Len(df) : df[i].g = g} : g \in {df[i].g : i \in 1..Len(df)}}
        keep_indices == {_select_index(df, group) : group \in groups}
    IN SortRows(df, keep_indices)

InitDedup ==
    /\ MainIdle
    /\ calc = CalcIdle
    /\ pl = PoolIdle
    /\ rq = ClientIdle
    /\ run = RunIdle
    /\ hd = HeadsIdle
    /\ scan = ScanIdle
    /\ norm = NormIdle
    /\ per = PeriodIdle
    /\ sec = SectionIdle
    /\ \E df \in Frames : dd = [DedupIdle EXCEPT !.step = "start", !.df = df]

\* deduplicate_quarters(df)
DedupFirst ==
    /\ dd.step = "start"
    /\ dd' = [dd EXCEPT !.step = "once", !.once = deduplicate_quarters(dd.df)]
    /\ UNCHANGED <<row, doc, pc, pm, mm, tried, calc, hd, scan, norm, per, sec, run, rq, pl>>

\* deduplicate_quarters applied to its own result
DedupSecond ==
    /\ dd.step = "once"
    /\ dd' = [dd EXCEPT !.step = "twice", !.twice = deduplicate_quarters(dd.once)]
    /\ UNCHANGED <<row, doc, pc, pm, mm, tried, calc, hd, scan, norm, per, sec, run, rq, pl>>

NextDedup == DedupFirst \/ DedupSecond

SpecDedup == InitDedup /\ [][NextDedup]_vars

(***************************************************************************)
(* main.py: run().  The steps step1_sub, step2_fye_api, step3_html_parse   *)
(* and step4_compute are numbered 1..4; files is the set of the steps      *)
(* whose checkpoint file exists, had the set at the start of the run.      *)
(* at is the stage about to be run, 5 for finalize, 6 when done, 7 after   *)
(* FileNotFoundError.                                                      *)
(***************************************************************************)
order == <<1, 2, 3, 4>>

\* lines 79-104 for stage k: run the step and save its checkpoint when
\* start_index <= k, otherwise _load_step
Stage(k) ==
    /\ run.at = k
    /\ IF run.start <= order[k]
       THEN run' = [run EXCEPT !.at = k + 1, !.ran = Append(@, k),
                               !.files = @ \cup {k}]
       ELSE IF k \in run.files
       THEN run' = [run EXCEPT !.at = k + 1, !.loaded = Append(@, k)]
       ELSE run' = [run EXCEPT !.at = 7]
    /\ UNCHANGED <<row, doc, pc, pm, mm, tried, calc, hd, scan, norm, per, sec, dd, rq, pl>>

Stage1 == Stage(1)

Stage2 == Stage(2)

Stage3 == Stage(3)

Stage4 == Stage(4)

\* line 106: finalize
Finalize ==
    /\ run.at = 5
    /\ run' = [run EXCEPT !.at = 6]
    /\ UNCHANGED <<row, doc, pc, pm, mm, tried, calc, hd, scan, norm, per, sec, dd, rq, pl>>

InitRun ==
    /\ MainIdle
    /\ calc = CalcIdle
    /\ pl = PoolIdle
    /\ rq = ClientIdle
    /\ hd = HeadsIdle
    /\ scan = ScanIdle
    /\ norm = NormIdle
    /\ per = PeriodIdle
    /\ sec = SectionIdle
    /\ dd = DedupIdle
    /\ \E st \in 1..4, fs \in SUBSET (1..4) :
          run = [RunIdle EXCEPT !.at = 1, !.start = st, !.had = fs, !.files = fs]

NextRun == Stage1 \/ Stage2 \/ Stage3 \/ Stage4 \/ Finalize

SpecRun == InitRun /\ [][NextRun]_vars

(***************************************************************************)
(* sec/client.py: sequential calls of _request_with_retry.  counts is      *)
(* _STATUS_COUNTS; made counts the calls begun, since the calls returned   *)
(* since the last reset; gets, seen and final describe the current (or     *)
(* last) call: its GET attempts, the outcome of its latest attempt and the *)
(* key it bumped.                                                          *)
(***************************************************************************)
MaxCalls == 3

max_retries == 5

StatusKeys == {"200", "404", "503", "EXC"}

RETRYABLE_STATUS == {"503"}

\* what one requests.get can give: 200 with text, 200 with an empty body, a
\* status that is not retried, a status that is, an exception
GetOutcomes == {"200", "200empty", "404", "503", "raise"}

\* the key _bump(code) counts under
BumpKey(code) == IF code = "None" THEN "EXC" ELSE code

_bump(counts, code) == [counts EXCEPT ![BumpKey(code)] = @ + 1]

\* the except branch keeping the code of the attempt before
ExcCode_keep(last_code) == last_code

\* lines 76-77: last_resp, last_code = None, None
ExcCode(last_code) == "None"

InitClient ==
    /\ MainIdle
    /\ calc = CalcIdle
    /\ pl = PoolIdle
    /\ hd = HeadsIdle
    /\ scan = ScanIdle
    /\ norm = NormIdle
    /\ per = PeriodIdle
    /\ sec = SectionIdle
    /\ dd = DedupIdle
    /\ run = RunIdle
    /\ \E r \in BOOLEAN : rq = [ClientIdle EXCEPT !.phase = "idle", !.req = r]

\* lines 49-56: a call begins; without the HTTP library it bumps and returns
CallBegin ==
    /\ rq.phase = "idle"
    /\ rq.made < MaxCalls
    /\ IF ~rq.req
       THEN rq' = [rq EXCEPT !.counts = _bump(@, "None"), !.made = @ + 1,
                             !.since = @ + 1, !.gets = 0, !.seen = "EXC",
                             !.final = "EXC"]
       ELSE rq' = [rq EXCEPT !.phase = "loop", !.made = @ + 1, !.attempt = 0,
                             !.last_code = "None", !.gets = 0, !.seen = "None",
                             !.final = "None"]
    /\ UNCHANGED <<row, doc, pc, pm, mm, tried, calc, hd, scan, norm, per, sec, dd, run, pl>>

\* lines 56-79: one pass of the loop body
Get ==
    /\ rq.phase = "loop"
    /\ rq.attempt < max_retries
    /\ \E o \in GetOutcomes :
          IF o = "raise"
          THEN rq' = [rq EXCEPT !.last_code = ExcCode(@), !.attempt = @ + 1,
                                !.gets = @ + 1, !.seen = "EXC"]
          ELSE LET code == IF o = "200empty" THEN "200" ELSE o
               IN IF o = "200" \/ code \notin RETRYABLE_STATUS
                  THEN rq' = [rq EXCEPT !.phase = "idle", !.last_code = code,
                                        !.counts = _bump(@, code), !.since = @ + 1,
                                        !.gets = @ + 1, !.seen = code, !.final = code]
                  ELSE rq' = [rq EXCEPT !.last_code = code, !.attempt = @ + 1,
                                        !.gets = @ + 1, !.seen = code]
    /\ UNCHANGED <<row, doc, pc, pm, mm, tried, calc, hd, scan, norm, per, sec, dd, run, pl>>

\* lines 81-83: the retries are exhausted
Exhausted ==
    /\ rq.phase = "loop"
    /\ rq.attempt >= max_retries
    /\ rq' = [rq EXCEPT !.phase = "idle", !.counts = _bump(@, rq.last_code),
                        !.since = @ + 1, !.final = BumpKey(rq.last_code)]
    /\ UNCHANGED <<row, doc, pc, pm, mm, tried, calc, hd, scan, norm, per, sec, dd, run, pl>>

\* status_counts(reset=True) between two calls
Reset ==
    /\ rq.phase = "idle"
    /\ rq.since > 0
    /\ rq' = [rq EXCEPT !.counts = [k \in StatusKeys |-> 0], !.since = 0]
    /\ UNCHANGED <<row, doc, pc, pm, mm, tried, calc, hd, scan, norm, per, sec, dd, run, pl>>

NextClient == CallBegin \/ Get \/ Exhausted \/ Reset

SpecClient == InitClient /\ [][NextClient]_vars

(***************************************************************************)
(* pipeline/section1a.py: enrich_with_section_1a with rate 0, rows 1..n    *)
(* mapped over a pool of two worker threads.  Every row makes one fetch    *)
(* call, whose _bump is _STATUS_COUNTS[key] += 1 without a lock: a load of *)
(* the value and a store of the value plus one, between which the other    *)
(* thread may run.  res[i] is the result _process_index returned for row   *)
(* i (0 while it has none, else the row's own word count 10 + i), data[i]  *)
(* the total_words written to row i.                                       *)
(***************************************************************************)
MaxPoolRows == 3

Workers == {1, 2}

InitPool ==
    /\ MainIdle
    /\ calc = CalcIdle
    /\ hd = HeadsIdle
    /\ scan = ScanIdle
    /\ norm = NormIdle
    /\ per = PeriodIdle
    /\ sec = SectionIdle
    /\ dd = DedupIdle
    /\ run = RunIdle
    /\ rq = ClientIdle
    /\ \E n \in 1..MaxPoolRows :
          pl = [PoolIdle EXCEPT !.n = n, !.res = [i \in 1..n |-> 0],
                                !.data = [i \in 1..n |-> 0]]

\* executor.map hands the next row to a free worker: _process_index begins
Take(w) ==
    /\ pl.wpc[w] = "free"
    /\ pl.next <= pl.n
    /\ pl' = [pl EXCEPT !.wrow[w] = pl.next, !.wpc[w] = "fetch", !.next = @ + 1]
    /\ UNCHANGED <<row, doc, pc, pm, mm, tried, calc, hd, scan, norm, per, sec, dd, run, rq>>

\* the fetch call of the row reaches _bump: the value of the counter is read
BumpLoad(w) ==
    /\ pl.wpc[w] = "fetch"
    /\ pl' = [pl EXCEPT !.tmp[w] = pl.counter, !.wpc[w] = "store", !.calls = @ + 1]
    /\ UNCHANGED <<row, doc, pc, pm, mm, tried, calc, hd, scan, norm, per, sec, dd, run, rq>>

\* _bump stores the value read plus one; _process_index returns the result
BumpStore(w) ==
    /\ pl.wpc[w] = "store"
    /\ pl' = [pl EXCEPT !.counter = pl.tmp[w] + 1, !.wpc[w] = "free",
                        !.res[pl.wrow[w]] = 10 + pl.wrow[w], !.wrow[w] = 0]
    /\ UNCHANGED <<row, doc, pc, pm, mm, tried, calc, hd, scan, norm, per, sec, dd, run, rq>>

\* the main thread takes the results in the order of the rows: _apply_result
Apply ==
    /\ pl.applied < pl.n
    /\ pl.res[pl.applied + 1] # 0
    /\ pl' = [pl EXCEPT !.data[pl.applied + 1] = pl.res[pl.applied + 1],
                        !.applied = @ + 1]
    /\ UNCHANGED <<row, doc, pc, pm, mm, tried, calc, hd, scan, norm, per, sec, dd, run, rq>>

Worker1 == Take(1) \/ BumpLoad(1) \/ BumpStore(1)

Worker2 == Take(2) \/ BumpLoad(2) \/ BumpStore(2)

NextPool == Worker1 \/ Worker2 \/ Apply

SpecPool == InitPool /\ [][NextPool]_vars

(***************************************************************************)
(* Properties of the FYE resolver (specification Spec)                     *)
(***************************************************************************)
\* the last tier evaluated and what it yielded
LastTried == tried[Len(tried)]

\* the as-of sentence probe_fye_from_balance_asof returned from
AsofSource == AsofScan(doc.text, 1, _near_months_set(pm)).at

\* the whole-text as-of probe has just yielded mm
AsofYielded == pc = "window" /\ mm # 0

\* C1: whenever a period month pm is known, the FYE month recorded for the
\* document is not in NearSet(pm), whichever tier recorded it.
C1_ExclusionInvariant ==
    (row.fyh # 0 /\ pm # 0) => row.fyh \notin _near_months_set(pm)

\* C2: every month the FYE resolver returns or records is in 1..12 (0 stands
\* for no result).
C2_MonthInRange == mm \in 0..12 /\ row.fyh \in 0..12

\* C3: when the inline tag carries a usable FYE month, that month is the one
\* recorded for the document and no text tier is evaluated.
C3_InlineTagWins ==
    (Len(tried) >= 1 /\ tried[1].tier = 1 /\ tried[1].m # 0) =>
        /\ row.fyh = tried[1].m
        /\ Len(tried) = 1
        /\ mm = 0

\* a document with a usable inline tag and an as-of sentence that resolves to
\* another month has been processed to the end
C3_Witness ==
    /\ pc = "done"
    /\ tried = <<Eval(1, 0, 10)>>
    /\ row.fyh = 10
    /\ probe_fye_from_balance_asof(doc.text, pm) \notin {0, 10}

\* tier a is evaluated before tier b: in the order 1..5, where the as-of
\* search and the generic scan (tiers 2 and 3) of one heading's window come
\* before those of the next heading
TierBefore(a, b) ==
    \/ a.tier < b.tier
    \/ a.tier \in {2, 3} /\ b.tier \in {2, 3} /\ b.head # 0 /\ a.head # b.head

\* C4: the tiers are evaluated in order, a tier is evaluated only after the
\* tiers before it yielded none, nothing is evaluated after a tier yields a
\* month, and that month is the document's result from then on.
C4_FirstSuccessFinal ==
    LET n == Len(tried)
    IN /\ \A i \in 1..n : \A j \in 1..n : i < j => TierBefore(tried[i], tried[j])
       /\ \A i \in 1..n : i < n => tried[i].m = 0
       /\ \A i \in 1..n :
             /\ tried[i].tier >= 2 => tried[1] = Eval(1, 0, 0)
             /\ tried[i].tier >= 3 \/ (tried[i].tier = 2 /\ tried[i].head # 0)
                   => tried[2] = Eval(2, 0, 0)
             /\ tried[i].tier = 3 => tried[i - 1] = Eval(2, tried[i].head, 0)
             /\ tried[i].tier = 5 => tried[i - 1] = Eval(4, 0, 0)
       /\ row.fyh # 0 => n >= 1 /\ LastTried.m = row.fyh
       /\ (n >= 1 /\ LastTried.m # 0) =>
             IF LastTried.tier = 1 THEN row.fyh = LastTried.m /\ mm = 0
             ELSE /\ mm = LastTried.m
                  /\ pc \in {"step4", "done"} => row.fyh = LastTried.m

\* the generic scan of a heading's window yielded the month after the inline
\* tag, the whole-text as-of probe and the window's as-of search yielded none
C4_Witness ==
    /\ pc = "done"
    /\ Len(tried) = 4
    /\ tried[1] = Eval(1, 0, 0)
    /\ tried[2] = Eval(2, 0, 0)
    /\ tried[3].tier = 2 /\ tried[3].m = 0
    /\ tried[4].tier = 3 /\ tried[4].m = 4
    /\ row.fyh = 4

\* C8: when the period month is known and the as-of sentence that determines
\* the FYE stands under a gated heading, the month returned is the surviving one if exactly one of its two
\* dates survives the exclusion filter, and the higher-scoring one if both do.
C8_AsofHigherScore ==
    (AsofYielded /\ pm # 0 /\ Gate(doc.text, AsofSource, window_lo)) =>
        LET bad == _near_months_set(pm)
            d1 == doc.text[AsofSource + 1]
            d2 == doc.text[AsofSource + 2]
            s1 == _score_candidate(ToDay(d1), ToMonth(d1), pm, FALSE)
            s2 == _score_candidate(ToDay(d2), ToMonth(d2), pm, FALSE)
        IN /\ (Survives(d1, bad) /\ ~Survives(d2, bad)) => mm = ToMonth(d1)
           /\ (~Survives(d1, bad) /\ Survives(d2, bad)) => mm = ToMonth(d2)
           /\ (Survives(d1, bad) /\ Survives(d2, bad) /\ s1 > s2) => mm = ToMonth(d1)
           /\ (Survives(d1, bad) /\ Survives(d2, bad) /\ s2 > s1) => mm = ToMonth(d2)

\* C9: when two candidates of a ranking tier have equal score, the one that
\* occurs earliest in the text is selected: DATE1 of an as-of sentence whose
\* two dates survive (the period month known), the earliest of the best
\* candidates of a generic scan.
C9_TieEarliest ==
    /\ (AsofYielded /\ pm # 0) =>
          LET bad == _near_months_set(pm)
              d1 == doc.text[AsofSource + 1]
              d2 == doc.text[AsofSource + 2]
              s1 == _score_candidate(ToDay(d1), ToMonth(d1), pm, FALSE)
              s2 == _score_candidate(ToDay(d2), ToMonth(d2), pm, FALSE)
          IN (Survives(d1, bad) /\ Survives(d2, bad) /\ s1 = s2) => mm = ToMonth(d1)
    /\ (pc = "text" /\ Len(tried) >= 1 /\ LastTried.tier = 3 /\ mm # 0) =>
          LET lo == End(doc.text, LastTried.head)
              hi == _truncate_at_next_section(doc.text, lo,
                        Min2(TextLen(doc.text), lo + window_hi))
              cands == GenericCands(doc.text, pm, lo, hi,
                                    _extract_dates_from_block(doc.text, lo, hi, 16))
          IN \E x \in cands :
                /\ x.m = mm
                /\ \A y \in cands : y.sc <= x.sc /\ (y.sc = x.sc => x.s <= y.s)

\* C10: an as-of sentence determines the FYE only when its heading is
\* followed by an "Assets" mention within the gate window.
C10_AsofOnlyUnderGatedHeading ==
    AsofYielded => Gate(doc.text, AsofSource, window_lo)

\* C11: the generic scan of a gated heading's window returns the month of a
\* highest-scoring candidate among the date tokens that lie in the window
\* before its first stop heading and whose month is known and outside
\* NearSet(pm), and none when there is no such token.
C11_GenericScan ==
    \A n \in 1..Len(tried) :
        tried[n].tier = 3 =>
            LET text == doc.text
                lo == End(text, tried[n].head)
                hi == Min2(TextLen(text), lo + window_hi)
                stops == {j \in 1..Len(text) :
                             text[j].k = "ST" /\ Start(text, j) >= lo /\ End(text, j) <= hi}
                before(i) == \A j \in stops : End(text, i) <= Start(text, j)
                month(i) == IF IsDash(text[i]) THEN text[i].m ELSE ToMonth(text[i])
                C == {i \in 1..Len(text) :
                         /\ IsDateAnyOrMd(text[i])
                         /\ Start(text, i) >= lo /\ End(text, i) <= hi /\ before(i)
                         /\ month(i) # 0
                         /\ month(i) \notin _near_months_set(pm)}
                fy(i) == \E j \in 1..Len(text) :
                            /\ HasFyPhrase(text[j])
                            /\ Start(text, j) >= Max2(lo, Start(text, i) - 60)
                            /\ End(text, j) <= End(text, i) + 60
                            /\ End(text, j) <= hi /\ before(j)
                score(i) == _score_candidate(ToDay(text[i]), month(i), pm, fy(i))
            IN IF C = {} THEN tried[n].m = 0
               ELSE \E x \in C : /\ month(x) = tried[n].m
                                  /\ \A y \in C : score(y) <= score(x)

\* a heading's window holds January 2 before a stop heading and April 30,
\* which would score higher, after it: the scan returns January
C11_Witness ==
    /\ pc = "done"
    /\ pm = 7
    /\ \E n \in 1..Len(tried) : tried[n].tier = 3 /\ tried[n].m = 1
    /\ \E j \in 1..Len(doc.text) :
          /\ doc.text[j].k = "ST"
          /\ j < Len(doc.text) /\ doc.text[j + 1] = Apr30
          /\ j > 1 /\ doc.text[j - 1] = Jan2
    /\ row.fyh = 1

\* C12: the month-only fallback is evaluated only after every tier before it
\* and every gated heading's as-of search and generic scan yielded none; its
\* result is the month of a top-scoring candidate of a gated heading's
\* window, the candidates being the month+day tokens outside NearSet(pm)
\* with the month-only score or, when there is none, the month words outside
\* NearSet(pm) with that score less 1; none when no window has a candidate.
C12_MonthOnlyFallback ==
    \A n \in 1..Len(tried) :
        tried[n].tier = 4 =>
            LET text == doc.text
                gated == {h \in 1..Len(text) : IsHead(text[h]) /\ Gate(text, h, 500)}
                lo(h) == End(text, h)
                hi(h) == Min2(TextLen(text), End(text, h) + 2500)
                far(i) == text[i].m \notin _near_months_set(pm)
                md(h) == {i \in 1..Len(text) :
                             IsMonthDay(text[i]) /\ Inside(text, i, lo(h), hi(h)) /\ far(i)}
                mo(h) == {i \in 1..Len(text) :
                             IsMonthWord(text[i]) /\ Inside(text, i, lo(h), hi(h)) /\ far(i)}
                used(h) == IF md(h) # {} THEN md(h) ELSE mo(h)
                score(h, i) ==
                    _score_candidate_month_only(text[i].m, pm,
                                                CtxHasFy(text, lo(h), hi(h), i))
                        - (IF md(h) # {} THEN 0 ELSE 1)
            IN /\ \A k \in 1..(n - 1) : tried[k].m = 0
               /\ \A h \in gated : \E k \in 1..(n - 1) : tried[k] = Eval(3, h, 0)
               /\ IF \A h \in gated : used(h) = {} THEN tried[n].m = 0
                  ELSE \E h \in gated : \E x \in used(h) :
                          /\ text[x].m = tried[n].m
                          /\ \A y \in used(h) : score(h, y) <= score(h, x)

\* the window holds only "March 31" and "December", pm = 12: the fallback
\* yields 3
C12_Witness ==
    /\ pc = "done"
    /\ pm = 12
    /\ doc.text = MonthOnlyText
    /\ LastTried = Eval(4, 0, 3)
    /\ row.fyh = 3

\* C13: the free-text fallback returns the month of the first sentence in
\* document order, among the matches of FYE_PATTS, whose month is not in
\* NearSet(pm), and none only when there is no such sentence.
C13_FreeTextFirst ==
    \A n \in 1..Len(tried) :
        tried[n].tier = 5 =>
            LET S == {i \in 1..Len(doc.text) :
                         /\ IsFyeSentence(doc.text[i])
                         /\ doc.text[i].m \notin _near_months_set(pm)}
            IN IF S = {} THEN tried[n].m = 0
               ELSE tried[n].m = doc.text[MinOf(S)].m

\* C14: when the text holds no balance-sheet-style heading, the as-of
\* sentence, the generic scan and the month-only fallback yield no month, and
\* a recorded FYE month comes from the inline tag or the free-text fallback.
C14_NoHeadingNoAnchoredTier ==
    (\A i \in 1..Len(doc.text) : doc.text[i].k \notin {"HU", "HA"}) =>
        /\ \A n \in 1..Len(tried) : tried[n].tier \in {2, 3, 4} => tried[n].m = 0
        /\ row.fyh # 0 => LastTried.tier \in {1, 5} /\ LastTried.m = row.fyh

\* a text with dates, a stop heading, an Assets mention and a fiscal-year
\* sentence but no balance-sheet heading is resolved by the free-text fallback
C14_Witness ==
    /\ pc = "done"
    /\ \A i \in 1..Len(doc.text) : doc.text[i].k \notin {"HU", "HA"}
    /\ \E i \in 1..Len(doc.text) : IsDateWord(doc.text[i])
    /\ \E n \in 1..Len(tried) : tried[n] = Eval(4, 0, 0)
    /\ LastTried = Eval(5, 0, 6)
    /\ row.fyh = 6

\* the document of the scenario: the cover sentence gives July 3, 2010, the
\* heading is followed by "As of July 3, 2010 and January 2, 2010" and
\* Assets, and there is no inline tag
ScenarioDoc ==
    doc = [html |-> TRUE, dei |-> NoDei, cover |-> CoverDate, text |-> ScenarioText]

\* C15: for the scenario document and a row without a quarter, the period
\* month used for exclusion is 7, the FYE month is 1, the effective period
\* month is 6 and step 4 labels the row Q2.
C15_Scenario ==
    [][(pc = "step4" /\ ScenarioDoc /\ row.quarter = NoQ) =>
           /\ pm = 7
           /\ row.fyh = 1
           /\ row'.ped = CoverDate
           /\ effective_period_month(row'.ped, cutoff) = 6
           /\ row'.fye = 1
           /\ row'.quarter = "Q2"]_vars

\* the scenario document has been processed: the as-of sentence gave
\* January and the row is labelled Q2
C15_Witness ==
    /\ pc = "done"
    /\ ScenarioDoc
    /\ pm = 7
    /\ tried = <<Eval(1, 0, 0), Eval(2, 0, 1)>>
    /\ row.fye = 1
    /\ row.quarter = "Q2"

(***************************************************************************)
(* Properties of the calculator (specification SpecCalc)                   *)
(***************************************************************************)
\* C5: quarter_from(p, f) is Q1, Q2 or Q3 when p lies 1-3, 4-6 or 7-9 months
\* after the FYE month f, null when it lies 10, 11 or 0 months after it (the
\* fourth quarter, p = f included), and null when p or f is absent.
C5_QuarterFrom ==
    calc.step = "done" =>
        LET after == (calc.p - calc.f) % 12
        IN IF calc.p = 0 \/ calc.f = 0 THEN calc.q = NoQ
           ELSE /\ after \in {1, 2, 3} => calc.q = "Q1"
                /\ after \in {4, 5, 6} => calc.q = "Q2"
                /\ after \in {7, 8, 9} => calc.q = "Q3"
                /\ after \in {10, 11, 0} => calc.q = NoQ

\* the period month equals the FYE month and the quarter is null
C5_Witness ==
    calc.step = "done" /\ calc.p = 12 /\ calc.f = 12 /\ calc.q = NoQ

\* C6: with cutoff 10 the effective period month of a date on day 1..10 is
\* the previous calendar month (December for a January date), of a date on
\* day 11 or later the date's own month, and of an absent date null.
C6_EffectiveMonth ==
    calc.step # "start" =>
        IF calc.date = NoDate THEN calc.p = 0
        ELSE IF calc.date.d <= 10
             THEN calc.p = (IF calc.date.m = 1 THEN 12 ELSE calc.date.m - 1)
             ELSE calc.p = calc.date.m

\* January 10 has December as its effective month
C6_Witness ==
    calc.step = "eff" /\ calc.date.m = 1 /\ calc.date.d = 10 /\ calc.p = 12

\* C7: for a month p in 1..12, NearSet(p) has exactly 3 elements, all in
\* 1..12, contains p, and is {p-1, p, p+1} taken circularly.
C7_NearSet ==
    (calc.step \in {"near", "done"} /\ calc.p # 0) =>
        /\ Cardinality(calc.near) = 3
        /\ calc.near \subseteq 1..12
        /\ calc.p \in calc.near
        /\ calc.near = {m \in 1..12 : (m - calc.p) % 12 \in {11, 0, 1}}
        /\ calc.p = 1 => 12 \in calc.near
        /\ calc.p = 12 => 1 \in calc.near

\* NearSet(12) has been computed and contains 1
C7_Witness ==
    calc.step = "near" /\ calc.p = 12 /\ 1 \in calc.near

\* C16: with d = (m - pm) mod 12 the distance part of the score is 0 for d in
\* {0, 1}, 3 for d = 11, 8 for d in {3, 6, 9} and 5 otherwise when pm is
\* known, and 0 when it is not; the score adds 1 for a parsed day 28..31 and 4 for a fiscal-year
\* phrase in the context; it is never negative, and the month-only score is
\* the same sum without the month-end term.
C16_Score ==
    calc.step = "scored" =>
        LET d == (calc.f - calc.date.m) % 12
            dist == IF calc.date = NoDate THEN 0
                    ELSE <<0, 0, 5, 8, 5, 5, 8, 5, 5, 8, 5, 3>>[d + 1]
            eom == IF calc.day \in 28..31 THEN 1 ELSE 0
            fy == IF calc.ctx THEN 4 ELSE 0
        IN /\ calc.sc = dist + eom + fy
           /\ calc.sco = dist + fy
           /\ calc.sc >= 0 /\ calc.sco >= 0

\* December scored against a January period end: the distance 11 earns 3,
\* the day 31 earns 1
C16_Witness ==
    /\ calc.step = "scored"
    /\ calc.date.m = 1 /\ calc.f = 12
    /\ calc.day = 31 /\ ~calc.ctx
    /\ calc.sc = 4 /\ calc.sco = 3

(***************************************************************************)
(* Properties of the heading locator, under SpecHeads                      *)
(***************************************************************************)
\* the span of a match: the fragment it lies in, its start and its length
Span(c) == [i |-> c.i, s |-> c.s, len |-> c.len]

\* every match of UPPER_HEAD_PATTS, ANCHOR_UPPER_PATTS and MIX_HEAD_PATTS in
\* the text, whatever the locator does with it
TierMatchSpans(text) ==
    {[i |-> i, s |-> Start(text, i) + h.off, len |-> h.len] :
        <<i, h>> \in UNION {{<<j, g>> : g \in PatternMatches(text[j])} :
                               j \in 1..Len(text)}}

\* C17: iter_balance_sheet_headings returns every match of the uppercase,
\* anchored and mixed-case patterns, the matches of the generic patterns only
\* when those three tiers match nowhere, ordered by descending score and, for
\* equal scores, by ascending start.
C17_AllTierMatches ==
    hd.step = "done" =>
        LET out == hd.out
            returned == {Span(out[k]) : k \in 1..Len(out)}
            tiered == TierMatchSpans(hd.text)
        IN /\ tiered # {} => returned = tiered
           /\ tiered = {} =>
                 returned = {Span(c) : c \in GenericHeadCands(hd.text)}
           /\ \A a, b \in 1..Len(out) :
                 a < b => \/ out[a].sc > out[b].sc
                          \/ out[a].sc = out[b].sc /\ out[a].s <= out[b].s

\* the rank of a tier: uppercase > anchored > mixed-case > generic
TierRank(tier) ==
    CASE tier = "upper" -> 4
      [] tier = "anchor" -> 3
      [] tier = "mixed" -> 2
      [] tier = "generic" -> 1

\* C18: of two candidates of one call, the one of the higher tier has the
\* strictly greater score, whatever token bonus and length term each has.
C18_TierOrder ==
    hd.step = "done" =>
        \A a, b \in 1..Len(hd.out) :
            TierRank(hd.out[a].tier) > TierRank(hd.out[b].tier)
                => hd.out[a].sc > hd.out[b].sc

(***************************************************************************)
(* Properties of the date scanner, under SpecScan                          *)
(***************************************************************************)
\* C19: _extract_dates_from_block(block, limit) returns at most limit
\* candidates.
C19_ScannerCap ==
    scan.step = "done" => Len(scan.out) <= scan.limit

\* C20: the candidates returned by _extract_dates_from_block are in the order
\* of the start of their match in the block (shown on the calls that stay
\* within the limit).
C20_ScannerOrder ==
    (scan.step = "done" /\ Len(scan.out) <= scan.limit) =>
        \A a, b \in 1..Len(scan.out) : a < b => scan.out[a].s <= scan.out[b].s

\* the block with every split date written whole
Unsplit(block) ==
    [i \in 1..Len(block) |->
        IF block[i].k = "DP" THEN Tok("DW", block[i].m, block[i].d) ELSE block[i]]

\* the (month, date) pair of a candidate
Pair(c) == <<c.m, c.day>>

C22_UnparsedKeepsMonth ==
    (scan.step = "done" /\ Len(scan.out) < scan.limit) =>
        \A i \in 1..Len(scan.block) :
            (IsDateWord(scan.block[i]) /\ ToMonth(scan.block[i]) = 0)
            => \E k \in 1..Len(scan.out) :
                  /\ scan.out[k].i = i
                  /\ scan.out[k].m = scan.block[i].m
                  /\ scan.out[k].day = 0

(***************************************************************************)
(* Properties of the normalizer, under SpecNorm                            *)
(***************************************************************************)
\* C23: html_to_text applied to its own result returns that result, and the
\* empty text is normalized to the empty text.
C23_NormIdempotent ==
    /\ norm.step = "twice" => norm.twice = norm.once
    /\ (norm.step \in {"once", "twice"} /\ norm.t = <<>>) => norm.once = <<>>

(***************************************************************************)
(* Properties of the period-end resolver, under SpecPeriod                 *)
(***************************************************************************)
\* C24: the resolver returns the date of the first cover sentence that
\* parses when the document text was fetched and has one, otherwise the
\* header date of a fetched submission text when one parses, and null only
\* when neither exists.
C24_PeriodFirstParsed ==
    per.step = "done" =>
        LET parsed == {k \in 1..Len(per.covers) : ToDate(per.covers[k]) # NoDate}
            seen == per.html \/ per.again
            header == per.urlok /\ \E k \in 1..Len(per.hdrs) : per.hdrs[k] = "ok"
        IN IF seen /\ parsed # {} THEN per.out = ToDate(per.covers[MinOf(parsed)])
           ELSE IF header THEN per.out = HdrDate
           ELSE per.out = NoDate

(***************************************************************************)
(* Properties of the Item 1A extractor, under SpecSection                  *)
(***************************************************************************)
\* C25: the section returned is taken from a candidate with a non-empty body
\* that no other such candidate exceeds in the order (risk phrase in the
\* first 512 characters, clean header, body length), it is that body up to a
\* trailing PART heading, and None is returned only when no candidate has a
\* body; so when some candidate has the risk phrase and a clean header, a
\* cross-reference "Item 1A)." is never the section returned.
C25_Item1aSelection ==
    sec.step = "done" =>
        LET text == sec.text
            ms == SectionMatches(text, 1)
            cands == {ms[k] : k \in {n \in 1..Len(ms) : BodyLen(text, ms[n]) > 0}}
            key(c) == SectionScore(text, c)
            gt(a, b) == \/ a[1] > b[1]
                        \/ a[1] = b[1] /\ a[2] > b[2]
                        \/ a[1] = b[1] /\ a[2] = b[2] /\ a[3] > b[3]
        IN /\ cands = {} <=> sec.at = 0
           /\ sec.at # 0 =>
                 \E c \in cands :
                    /\ c.h = sec.at
                    /\ \A o \in cands : ~gt(key(o), key(c))
                    /\ sec.len <= BodyLen(text, c) /\ sec.len > 0
                    /\ sec.len < BodyLen(text, c) =>
                          \E j \in (c.h + 1)..(c.e - 1) :
                             text[j] = "PT" /\ SpanLen(text, c.h + 1, j - 1) = sec.len
           /\ (\E c \in cands : key(c)[1] = 1 /\ key(c)[2] = 1) => text[sec.at] = "I1"

\* a long cross-reference section, then the real, shorter risk section: the
\* real one is returned
C25_Witness ==
    /\ sec.step = "done"
    /\ sec.text = <<"IX", "W", "NI", "I1", "RF">>
    /\ sec.at = 4
    /\ sec.len = 13

(***************************************************************************)
(* Properties of deduplicate_quarters, under SpecDedup                     *)
(***************************************************************************)
\* C26: the result holds exactly one row for every group of the frame and no
\* other row; the row kept for a group is a row of the group with the latest
\* filedAt among its rows with total_words > 0 when it has such rows and
\* among all its rows otherwise; a second application returns the same rows.
C26_DedupOnePerGroup ==
    /\ dd.step \in {"once", "twice"} =>
          LET df == dd.df
              out == dd.once
              rowsOf(g) == {df[i] : i \in {j \in 1..Len(df) : df[j].g = g}}
              pref(g) == IF \E r \in rowsOf(g) : r.w > 0
                         THEN {r \in rowsOf(g) : r.w > 0} ELSE rowsOf(g)
          IN /\ \A i \in 1..Len(df) :
                   Cardinality({k \in 1..Len(out) : out[k].g = df[i].g}) = 1
             /\ \A k \in 1..Len(out) :
                   /\ out[k] \in pref(out[k].g)
                   /\ \A r \in pref(out[k].g) : r.f <= out[k].f
    /\ dd.step = "twice" => dd.twice = dd.once

\* a group whose latest filing has no words and whose earlier filing has
\* some, beside another group: the earlier filing and the other group's row
\* are kept
C26_Witness ==
    /\ dd.step = "twice"
    /\ dd.df = <<[g |-> 1, w |-> 3, f |-> 1], [g |-> 1, w |-> 0, f |-> 2],
                 [g |-> 2, w |-> 0, f |-> 0]>>
    /\ dd.once = <<[g |-> 1, w |-> 3, f |-> 1], [g |-> 2, w |-> 0, f |-> 0]>>
    /\ dd.twice = dd.once

(***************************************************************************)
(* Properties of the resume logic, under SpecRun                           *)
(***************************************************************************)
\* C27: a run started at step S whose checkpoint of S exists does not stop
\* for a missing checkpoint, whatever other checkpoints exist; no step
\* before S is executed, and the steps executed are S and the later ones in
\* the fixed order.
C27_ResumeNeedsOnlyStart ==
    /\ (run.at # 0 /\ run.start \in run.had) => run.at # 7
    /\ \A n \in 1..Len(run.ran) : run.ran[n] = run.start + n - 1
    /\ run.at = 6 => Len(run.ran) = 5 - run.start

(***************************************************************************)
(* Properties of the HTTP client, under SpecClient                         *)
(***************************************************************************)
\* the sum of the counter values
CountSum(counts) == counts["200"] + counts["404"] + counts["503"] + counts["EXC"]

\* C28: a call makes at most max_retries GET attempts; every call that has
\* returned has bumped the counter exactly once, under the outcome of its
\* final attempt (EXC without the HTTP library), and a call in progress has
\* not bumped it: the counter values sum to the calls returned since the
\* last reset.
C28_OneBumpPerCall ==
    /\ [](/\ rq.gets <= max_retries
          /\ rq.phase \in {"idle", "loop"} => CountSum(rq.counts) = rq.since
          /\ (rq.phase = "idle" /\ rq.made > 0) => rq.final = rq.seen)
    /\ [][(rq.phase = "loop" /\ rq'.phase = "idle")
             => /\ CountSum(rq'.counts) = CountSum(rq.counts) + 1
                /\ rq'.counts[rq'.seen] = rq.counts[rq'.seen] + 1]_vars

\* a retried status, then four exceptions: the call returns after five
\* attempts and is counted under EXC
C28_Witness ==
    /\ rq.phase = "idle"
    /\ rq.gets = 5
    /\ rq.seen = "EXC"
    /\ rq.counts["EXC"] = 1
    /\ rq.counts["503"] = 1
    /\ rq.since = 2

(***************************************************************************)
(* Properties of the worker pool, under SpecPool                           *)
(***************************************************************************)
\* C29: once every row is processed and applied, the counter equals the
\* number of fetch calls made, and at every moment a row holds either its
\* initial value or its own result.
C29_NoLostUpdate ==
    /\ \A i \in 1..pl.n : pl.data[i] \in {0, 10 + i}
    /\ (pl.n > 0 /\ pl.applied = pl.n) => pl.counter = pl.calls

====
